---- MODULE Spec2Model ----
(***************************************************************************)
(* Model of debugger.py: the script reads test.py, executes it with exec   *)
(* inside one try block, and on any Exception prints a header, the error   *)
(* message and one of three explanations chosen by substring tests.        *)
(*                                                                         *)
(* Text is modelled as a sequence of one-character strings, so that the    *)
(* substring tests, lower() and the line structure of the output are       *)
(* computed character by character, as the interpreter computes them.      *)
(***************************************************************************)
EXTENDS Integers, Sequences, FiniteSets, TLC

VARIABLES pc, test_py, e, error_message, stdout, stderr, exit_status

vars == <<pc, test_py, e, error_message, stdout, stderr, exit_status>>

----------------------------------------------------------------------------
(* Bounds of the model *)

\* an error message is the concatenation of at most MaxFrags fragments
MaxFrags == 3
\* the target file prints at most MaxWrites lines of its own before it ends
MaxWrites == 2

----------------------------------------------------------------------------
(* The literals of debugger.py *)

NL == "\n"

\* "Error detected:"
Header == <<"E","r","r","o","r"," ","d","e","t","e","c","t","e","d",":">>

\* "\nExplanation:"
ExplanationTitle == <<"\n","E","x","p","l","a","n","a","t","i","o","n",":">>

\* "You are using a variable before assigning a value."
UndefinedText == <<"Y","o","u"," ","a","r","e"," ","u","s","i","n","g"," ","a"," ","v","a","r","i","a","b","l","e"," ","b","e","f","o","r","e"," ","a","s","s","i","g","n","i","n","g"," ","a"," ","v","a","l","u","e",".">>

\* "There is a syntax mistake. Check brackets or colons."
SyntaxText == <<"T","h","e","r","e"," ","i","s"," ","a"," ","s","y","n","t","a","x"," ","m","i","s","t","a","k","e","."," ","C","h","e","c","k"," ","b","r","a","c","k","e","t","s"," ","o","r"," ","c","o","l","o","n","s",".">>

\* "An error occurred. Please check your code."
GenericText == <<"A","n"," ","e","r","r","o","r"," ","o","c","c","u","r","r","e","d","."," ","P","l","e","a","s","e"," ","c","h","e","c","k"," ","y","o","u","r"," ","c","o","d","e",".">>

\* "not defined"
NotDefinedNeedle == <<"n","o","t"," ","d","e","f","i","n","e","d">>

\* "syntax"
SyntaxNeedle == <<"s","y","n","t","a","x">>

\* str(e) of the FileNotFoundError that open("test.py") raises:
\* "[Errno 2] No such file or directory: 'test.py'"
FileNotFoundMessage == <<"[","E","r","r","n","o"," ","2","]"," ","N","o"," ","s","u","c","h"," ","f","i","l","e"," ","o","r"," ","d","i","r","e","c","t","o","r","y",":"," ","'","t","e","s","t",".","p","y","'">>

----------------------------------------------------------------------------
(* The string operations the script uses *)

UpperLetters == <<"A","B","C","D","E","F","G","H","I","J","K","L","M","N","O","P","Q","R","S","T","U","V","W","X","Y","Z">>
LowerLetters == <<"a","b","c","d","e","f","g","h","i","j","k","l","m","n","o","p","q","r","s","t","u","v","w","x","y","z">>

LowerChar(c) ==
    IF \E i \in 1..Len(UpperLetters) : UpperLetters[i] = c
    THEN LowerLetters[CHOOSE i \in 1..Len(UpperLetters) : UpperLetters[i] = c]
    ELSE c

\* mutant: the call to .lower() is forgotten
LowerForgotten(s) == s

\* s.lower()
lower(s) == [i \in 1..Len(s) |-> LowerChar(s[i])]

\* mutant: the test compares for equality instead of searching
ContainsEq(needle, s) == needle = s

\* needle in s
Contains(needle, s) ==
    \E i \in 0..(Len(s) - Len(needle)) :
        SubSeq(s, i + 1, i + Len(needle)) = needle

\* mutant: print without the line end
printNoEnd(out, s) == out \o s

\* print(s) on the stream out: the text, then a newline
print(out, s) == out \o s \o <<NL>>

----------------------------------------------------------------------------
(* The target file test.py, by what executing it does *)

\* fragments error messages are built from: the two needles whole, in other
\* letter cases and split in two, a newline, and text of real messages
Fragments ==
    { NotDefinedNeedle,
      <<"N","o","t"," ","D","e","f","i","n","e","d">>,
      <<"n","o","t">>,
      <<" ","d","e","f","i","n","e","d">>,
      SyntaxNeedle,
      <<"S","Y","N","T","A","X">>,
      <<"S","y","n">>,
      <<"t","a","x">>,
      <<NL>>,
      <<"x">>,
      <<"i","n","v","a","l","i","d"," ">> }

RECURSIVE MessagesUpTo(_)
MessagesUpTo(n) ==
    IF n = 0 THEN { <<>> }
    ELSE LET shorter == MessagesUpTo(n - 1)
         IN  shorter \cup { m \o f : m \in shorter, f \in Fragments }

Messages == MessagesUpTo(MaxFrags)

\* a line the target prints itself: "hi"
TargetLine == <<"h","i">>

RECURSIVE WritesUpTo(_)
WritesUpTo(n) ==
    IF n = 0 THEN { <<>> }
    ELSE LET shorter == WritesUpTo(n - 1)
         IN  shorter \cup { w \o <<TargetLine>> : w \in shorter }

\* exception classes a target raises; only the first derives from Exception.
\* An exception is raised with one text argument, which is what str() gives.
Classes == { "Exception", "SystemExit", "BaseException" }

None == [cls |-> "None", msg |-> <<>>]

\* the value of error_message while the name is unbound, that is, unless
\* line 6 has run; it is no text, a text being made of single characters
Unbound == <<"unbound">>

Exceptions == [cls : Classes, msg : Messages]

\* a target prints some lines and then returns or raises
Targets == [writes : WritesUpTo(MaxWrites), result : {None} \cup Exceptions]

\* test.py is absent from the working directory
Missing == [writes |-> <<>>, result |-> [cls |-> "Missing", msg |-> <<>>]]

RECURSIVE PrintAll(_, _)
PrintAll(out, lines) ==
    IF lines = <<>> THEN out
    ELSE PrintAll(print(out, Head(lines)), Tail(lines))

----------------------------------------------------------------------------
(* The script *)

\* mutant: a bare except clause, which matches every exception
ExceptAll(exc) == TRUE

\* except Exception: matches instances of Exception and its subclasses
ExceptException(exc) == exc.cls \in { "Exception", "FileNotFoundError" }

\* str(e)
str(exc) == exc.msg

\* mutant: the two tests in the opposite order
ExceptBodySwapped(out, msg) ==
    LET shown == print(print(out, Header), msg)
    IN  IF Contains(SyntaxNeedle, lower(msg))
        THEN print(print(shown, ExplanationTitle), SyntaxText)
        ELSE IF Contains(NotDefinedNeedle, msg)
        THEN print(print(shown, ExplanationTitle), UndefinedText)
        ELSE print(print(shown, ExplanationTitle), GenericText)

\* mutant: the else branch is missing
ExceptBodyNoElse(out, msg) ==
    LET shown == print(print(out, Header), msg)
    IN  IF Contains(NotDefinedNeedle, msg)
        THEN print(print(shown, ExplanationTitle), UndefinedText)
        ELSE IF Contains(SyntaxNeedle, lower(msg))
        THEN print(print(shown, ExplanationTitle), SyntaxText)
        ELSE shown

\* mutant: the message is lowercased once, before it is printed and tested
ExceptBodyLowered(out, msg) ==
    LET low == lower(msg)
        shown == print(print(out, Header), low)
    IN  IF Contains(NotDefinedNeedle, low)
        THEN print(print(shown, ExplanationTitle), UndefinedText)
        ELSE IF Contains(SyntaxNeedle, low)
        THEN print(print(shown, ExplanationTitle), SyntaxText)
        ELSE print(print(shown, ExplanationTitle), GenericText)

\* mutant: elif written as a second if, so the else pairs with it alone
ExceptBodyTwoIfs(out, msg) ==
    LET shown == print(print(out, Header), msg)
        first == IF Contains(NotDefinedNeedle, msg)
                 THEN print(print(shown, ExplanationTitle), UndefinedText)
                 ELSE shown
    IN  IF Contains(SyntaxNeedle, lower(msg))
        THEN print(print(first, ExplanationTitle), SyntaxText)
        ELSE print(print(first, ExplanationTitle), GenericText)

\* lines 8-21: what the handler prints for the message msg
ExceptBody(out, msg) ==
    LET shown == print(print(out, Header), msg)
    IN  IF Contains(NotDefinedNeedle, msg)
        THEN print(print(shown, ExplanationTitle), UndefinedText)
        ELSE IF Contains(SyntaxNeedle, lower(msg))
        THEN print(print(shown, ExplanationTitle), SyntaxText)
        ELSE print(print(shown, ExplanationTitle), GenericText)

Init ==
    /\ pc = "try"
    /\ test_py \in {Missing} \cup Targets
    /\ e = None
    /\ error_message = Unbound
    /\ stdout = <<>>
    /\ stderr = "empty"
    /\ exit_status = -1

\* an exception leaves the try block: the except clause takes it, or it
\* reaches the interpreter, which ends the process with status 1 (SystemExit
\* with a text writes the text to stderr, anything else a traceback)
Raise(exc) ==
    IF ExceptException(exc)
    THEN /\ pc' = "except"
         /\ e' = exc
         /\ UNCHANGED <<stderr, exit_status>>
    ELSE /\ pc' = "uncaught"
         /\ stderr' = IF exc.cls = "SystemExit" THEN "message" ELSE "traceback"
         /\ exit_status' = 1
         /\ UNCHANGED e

\* mutant: open() is called before the try block
OpenReadOutsideTry ==
    /\ pc = "try"
    /\ IF test_py = Missing
       THEN /\ pc' = "uncaught"
            /\ stderr' = "traceback"
            /\ exit_status' = 1
       ELSE /\ pc' = "exec"
            /\ UNCHANGED <<stderr, exit_status>>
    /\ UNCHANGED <<test_py, e, error_message, stdout>>

\* line 3: open("test.py").read()
OpenRead ==
    /\ pc = "try"
    /\ IF test_py = Missing
       THEN Raise([cls |-> "FileNotFoundError", msg |-> FileNotFoundMessage])
       ELSE /\ pc' = "exec"
            /\ UNCHANGED <<e, stderr, exit_status>>
    /\ UNCHANGED <<test_py, error_message, stdout>>

\* mutant: the header is printed at the end of the try block
ExecThenHeader ==
    /\ pc = "exec"
    /\ IF test_py.result = None
       THEN /\ stdout' = print(PrintAll(stdout, test_py.writes), Header)
            /\ pc' = "done"
            /\ exit_status' = 0
            /\ UNCHANGED <<e, stderr>>
       ELSE /\ stdout' = PrintAll(stdout, test_py.writes)
            /\ Raise(test_py.result)
    /\ UNCHANGED <<test_py, error_message>>

\* line 3: exec(...) runs the target in the script's own environment; the
\* target's prints go to the same stdout; it then returns, and the script
\* ends with status 0, or raises
Exec ==
    /\ pc = "exec"
    /\ stdout' = PrintAll(stdout, test_py.writes)
    /\ IF test_py.result = None
       THEN /\ pc' = "done"
            /\ exit_status' = 0
            /\ UNCHANGED <<e, stderr>>
       ELSE Raise(test_py.result)
    /\ UNCHANGED <<test_py, error_message>>

\* lines 5-21: the handler, after which the script ends with status 0; the
\* name e is unbound again when the except clause is left
Except ==
    /\ pc = "except"
    /\ error_message' = str(e)
    /\ stdout' = ExceptBody(stdout, str(e))
    /\ pc' = "done"
    /\ exit_status' = 0
    /\ e' = None
    /\ UNCHANGED <<test_py, stderr>>

Next == OpenRead \/ Exec \/ Except

Spec == Init /\ [][Next]_vars

----------------------------------------------------------------------------
(* Vocabulary of the properties.  These operators are written out on their *)
(* own, without the operators of the script above, so that a property      *)
(* compares what the script computed with an independent description.      *)

Includes(part, whole) ==
    \E i \in 1..(Len(whole) - Len(part) + 1) :
        \A k \in 1..Len(part) : whole[i + k - 1] = part[k]

SameLetter(a, b) ==
    \/ a = b
    \/ \E i \in 1..Len(UpperLetters) :
          {a, b} = {UpperLetters[i], LowerLetters[i]}

\* part occurs in whole in some letter case
IncludesAnyCase(part, whole) ==
    \E i \in 1..(Len(whole) - Len(part) + 1) :
        \A k \in 1..Len(part) : SameLetter(whole[i + k - 1], part[k])

StartsWith(whole, part) ==
    /\ Len(part) <= Len(whole)
    /\ \A k \in 1..Len(part) : whole[k] = part[k]

\* number of line ends in a text
CountNL(s) == Cardinality({ i \in 1..Len(s) : s[i] = NL })

RECURSIVE Joined(_)
Joined(lines) ==
    IF lines = <<>> THEN <<>>
    ELSE Head(lines) \o <<NL>> \o Joined(Tail(lines))

ExplanationTexts == { UndefinedText, SyntaxText, GenericText }

\* the explanation block as it appears on the console
Block(text) == ExplanationTitle \o <<NL>> \o text \o <<NL>>

\* the script has ended, one way or the other
Ended == pc \in { "done", "uncaught" }

\* the exception the run raises, None if it raises none
Raised ==
    IF test_py = Missing
    THEN [cls |-> "FileNotFoundError", msg |-> FileNotFoundMessage]
    ELSE test_py.result

\* the handler ran and the script ended after it
Handled == pc = "done" /\ error_message # Unbound

\* what the target itself wrote, and what the script wrote after it
TargetOut == Joined(test_py.writes)
HandlerOut == SubSeq(stdout, Len(TargetOut) + 1, Len(stdout))

\* the header/message pair, and what follows it on the console
Pair(msg) == Header \o <<NL>> \o msg \o <<NL>>
AfterPair == SubSeq(HandlerOut, Len(Pair(error_message)) + 1, Len(HandlerOut))

\* the explanation texts found after the header/message pair
Explained == { x \in ExplanationTexts : Includes(x, AfterPair) }

----------------------------------------------------------------------------
(* C1 *)

\* C1 as stated: every error raised while reading or executing the target,
\* of whatever kind, is answered with header, message and an explanation,
\* and the script ends normally with exit status 0.
C1_AsStated ==
    (Ended /\ Raised # None) =>
        /\ pc = "done"
        /\ exit_status = 0
        /\ \E x \in ExplanationTexts : HandlerOut = Pair(Raised.msg) \o Block(x)

\* C1, amended: an error that is an instance of Exception is caught by the
\* one handler, answered with header, message and one explanation, and the
\* script ends with exit status 0 and nothing on stderr; an exception outside
\* the Exception hierarchy (SystemExit, a bare BaseException) is not caught:
\* the script prints nothing of its own and ends with the status the
\* interpreter gives that exception, 1 for the ones modelled here.
C1_Caught ==
    (Ended /\ Raised # None) =>
        IF Raised.cls \in { "Exception", "FileNotFoundError" }
        THEN /\ pc = "done"
             /\ e = None
             /\ error_message = Raised.msg
             /\ exit_status = 0
             /\ stderr = "empty"
             /\ \E x \in ExplanationTexts :
                    HandlerOut = Pair(Raised.msg) \o Block(x)
        ELSE /\ pc = "uncaught"
             /\ e = None
             /\ error_message = Unbound
             /\ exit_status = 1
             /\ stderr # "empty"
             /\ HandlerOut = <<>>

C1_Witness ==
    /\ Handled
    /\ test_py # Missing
    /\ test_py.result.cls = "Exception"
    /\ exit_status = 0
    /\ HandlerOut = Pair(test_py.result.msg) \o Block(GenericText)

----------------------------------------------------------------------------
(* C2 *)

\* C2: when the handled error's message contains "not defined" in exactly
\* this letter case, the output includes the explanation "You are using a
\* variable before assigning a value."
C2_NotDefined ==
    (Handled /\ Includes(NotDefinedNeedle, error_message)) =>
        /\ Includes(UndefinedText, stdout)
        /\ AfterPair = Block(UndefinedText)

C2_Witness ==
    /\ Handled
    /\ Includes(NotDefinedNeedle, error_message)
    /\ error_message # NotDefinedNeedle
    /\ Includes(UndefinedText, stdout)

----------------------------------------------------------------------------
(* C3 *)

\* C3: when the handled error's message contains "syntax" in any letter case
\* and does not contain "not defined", the output includes the explanation
\* "There is a syntax mistake. Check brackets or colons."
C3_Syntax ==
    (/\ Handled
     /\ IncludesAnyCase(SyntaxNeedle, error_message)
     /\ ~Includes(NotDefinedNeedle, error_message)) =>
        /\ Includes(SyntaxText, stdout)
        /\ AfterPair = Block(SyntaxText)

C3_Witness ==
    /\ Handled
    /\ Includes(<<"S","Y","N","T","A","X">>, error_message)
    /\ ~Includes(SyntaxNeedle, error_message)
    /\ Includes(SyntaxText, stdout)

----------------------------------------------------------------------------
(* C4 *)

\* C4: when the handled error's message contains neither "not defined" nor,
\* in any letter case, "syntax", the output includes the generic explanation
\* "An error occurred. Please check your code." and the explanation printed
\* is neither of the other two.
C4_Generic ==
    (/\ Handled
     /\ ~Includes(NotDefinedNeedle, error_message)
     /\ ~IncludesAnyCase(SyntaxNeedle, error_message)) =>
        /\ Includes(GenericText, stdout)
        /\ ~Includes(UndefinedText, AfterPair)
        /\ ~Includes(SyntaxText, AfterPair)

C4_Witness ==
    /\ Handled
    /\ error_message = <<"i","n","v","a","l","i","d"," ","x">>
    /\ Includes(GenericText, stdout)

----------------------------------------------------------------------------
(* C5 *)

\* C5: first match wins: a message that contains both "not defined" and
\* "syntax" selects the undefined-variable explanation only, and the syntax
\* explanation is not printed.
C5_FirstMatch ==
    (/\ Handled
     /\ Includes(NotDefinedNeedle, error_message)
     /\ IncludesAnyCase(SyntaxNeedle, error_message)) =>
        /\ Includes(UndefinedText, AfterPair)
        /\ ~Includes(SyntaxText, stdout)

C5_Witness ==
    /\ Handled
    /\ Includes(NotDefinedNeedle, error_message)
    /\ Includes(SyntaxNeedle, error_message)
    /\ AfterPair = Block(UndefinedText)

----------------------------------------------------------------------------
(* C6 *)

\* C6 as stated: a run whose target raises no error ends with no output at
\* all and exit status 0.
C6_AsStated ==
    (Ended /\ Raised = None) =>
        /\ stdout = <<>>
        /\ exit_status = 0

\* C6, amended: a run whose target raises no error ends normally with exit
\* status 0 and the script prints nothing of its own: the output is exactly
\* what the target file itself wrote (nothing when it writes nothing), with
\* no header, no message and no explanation.
C6_Silent ==
    (Ended /\ Raised = None) =>
        /\ pc = "done"
        /\ exit_status = 0
        /\ stderr = "empty"
        /\ error_message = Unbound
        /\ stdout = TargetOut
        /\ ~Includes(Header, stdout)
        /\ \A x \in ExplanationTexts : ~Includes(x, stdout)

C6_Witness ==
    /\ pc = "done"
    /\ Raised = None
    /\ test_py.writes # <<>>
    /\ stdout = TargetLine \o <<NL>>

----------------------------------------------------------------------------
(* C7 *)

\* C7: when test.py is missing, the error of open() is caught by the same
\* handler and the generic branch is selected: the output is the header, the
\* file-not-found message and the generic explanation.
C7_MissingFile ==
    (Ended /\ test_py = Missing) =>
        /\ pc = "done"
        /\ e = None
        /\ error_message = FileNotFoundMessage
        /\ exit_status = 0
        /\ stdout = Header \o <<NL>> \o FileNotFoundMessage \o <<NL>>
                      \o Block(GenericText)

C7_Witness ==
    /\ test_py = Missing
    /\ pc = "done"
    /\ Includes(FileNotFoundMessage, stdout)
    /\ Includes(GenericText, stdout)

----------------------------------------------------------------------------
(* C8 *)

\* C8 as stated: whenever an error is handled, what the handler shows is
\* exactly a two-line header/message pair followed by the explanation block,
\* for every message, and no stack trace.
C8_AsStated ==
    Handled =>
        /\ stderr = "empty"
        /\ \E x \in ExplanationTexts :
              /\ HandlerOut = Pair(error_message) \o Block(x)
              /\ CountNL(Pair(error_message)) = 2

\* C8, amended: whenever an error is handled, what the handler shows is
\* exactly the line "Error detected:", the raw message, a blank line, the
\* line "Explanation:" and one explanation line, and no stack trace.  The
\* message takes one line when it has no line break (an empty message gives
\* an empty line) and k+1 lines when it has k line breaks.
C8_Shape ==
    Handled =>
        /\ stderr = "empty"
        /\ \E x \in ExplanationTexts :
              HandlerOut = Pair(error_message) \o Block(x)
        /\ CountNL(HandlerOut) = 5 + CountNL(error_message)

C8_Witness ==
    /\ Handled
    /\ CountNL(error_message) = 1
    /\ CountNL(HandlerOut) = 6

----------------------------------------------------------------------------
(* C9 *)

\* C9: in every handled-error run exactly one of the three explanation texts
\* is printed, after the line "Error detected:" and after the raw message as
\* the target raised it, in that order.
C9_OneExplanation ==
    Handled =>
        /\ error_message = Raised.msg
        /\ StartsWith(HandlerOut, Pair(Raised.msg))
        /\ Cardinality(Explained) = 1
        /\ \A x \in ExplanationTexts : ~Includes(x, Pair(Raised.msg))

C9_Witness ==
    /\ Handled
    /\ Includes(NotDefinedNeedle, error_message)
    /\ Includes(<<"S","Y","N","T","A","X">>, error_message)
    /\ Explained = { UndefinedText }

----------------------------------------------------------------------------
(* C10 *)

\* C10: the two tests have different case rules: a message that has
\* "not defined" only in another letter case does not select the first
\* branch and is classified by the remaining tests, and a message that has
\* "syntax" in any letter case and no "not defined" selects the syntax branch.
C10_CaseRules ==
    /\ (/\ Handled
        /\ IncludesAnyCase(NotDefinedNeedle, error_message)
        /\ ~Includes(NotDefinedNeedle, error_message)) =>
           AfterPair = IF IncludesAnyCase(SyntaxNeedle, error_message)
                       THEN Block(SyntaxText)
                       ELSE Block(GenericText)
    /\ (/\ Handled
        /\ IncludesAnyCase(SyntaxNeedle, error_message)
        /\ ~Includes(SyntaxNeedle, error_message)
        /\ ~Includes(NotDefinedNeedle, error_message)) =>
           AfterPair = Block(SyntaxText)

C10_Witness ==
    /\ Handled
    /\ Includes(<<"N","o","t"," ","D","e","f","i","n","e","d">>, error_message)
    /\ ~IncludesAnyCase(SyntaxNeedle, error_message)
    /\ AfterPair = Block(GenericText)

====
